---------------------------- MODULE Spec2Model ----------------------------
(***************************************************************************)
(* GridCanvas (napari/components/grid.py): the grid configuration          *)
(* (enabled, size, stride), its three setters with their "update" event,   *)
(* and the two queries actual_size and position.                           *)
(*                                                                         *)
(* A GridCanvas object is the record self = [enabled, size, stride].  The  *)
(* queries are operators of self and their arguments; a Python exception   *)
(* is the field "raised" of the returned record.  Every action is one call *)
(* of a method; ret records that call, emitted the notifications the call  *)
(* delivered, in order, each with the configuration the listener read.     *)
(***************************************************************************)
EXTENDS Integers, Sequences, FiniteSets

VARIABLES enabled, size, stride, build, emitted, ret

vars == <<enabled, size, stride, build, emitted, ret>>

(***************************************************************************)
(* Bounds of the checked instance.                                         *)
(***************************************************************************)
MaxLayers == 10
MaxDim == 2
MaxStride == 2

AUTO == -1

SizeValues == {AUTO} \cup (0 .. MaxDim)
Sizes == SizeValues \X SizeValues
Strides == (-MaxStride) .. MaxStride
LayerCounts == 0 .. MaxLayers

(***************************************************************************)
(* The value of np.float64(x).astype(int) for a non-finite x is not        *)
(* defined by numpy: it is what the platform's conversion instruction      *)
(* gives.  x86-64 returns the minimum int64 for nan and for +inf; AArch64  *)
(* returns 0 for nan and saturates +inf to the maximum int64.  The build   *)
(* is chosen once, in Init.  CastMax and CastMin stand for 2^63 - 1 and    *)
(* -2^63: the code only compares them with 1, multiplies them by 1 and     *)
(* reduces a layer index modulo them, so any value above every layer count *)
(* (below every dimension) behaves as they do.                             *)
(***************************************************************************)
Builds == {"x86_64", "aarch64"}
CastMax == 2147483647
CastMin == -2147483647

astype_int_nonfinite(x) ==
    IF build = "x86_64" THEN CastMin
    ELSE IF x = "nan" THEN 0 ELSE CastMax

(***************************************************************************)
(* Results of a call: a returned value or a raised exception.              *)
(***************************************************************************)
Return(v) == [raised |-> "none", value |-> v]
Raise(e) == [raised |-> e, value |-> <<>>]

abs(x) == IF x < 0 THEN -x ELSE x
max(a, b) == IF a >= b THEN a ELSE b

(***************************************************************************)
(* np.ceil(a / b).astype(int) for integers a >= 0 and b > 0.  Within the   *)
(* bounds the float quotient is exact when b divides a and otherwise lies  *)
(* strictly between two integers, so its ceiling is the integer ceiling.   *)
(***************************************************************************)
ceil_div_floor(a, b) == a \div b

ceil_div(a, b) == IF a % b = 0 THEN a \div b ELSE (a \div b) + 1

(***************************************************************************)
(* np.ceil(n / d).astype(int) where n is a numpy integer: a zero divisor   *)
(* gives inf (nan for 0 / 0) and a warning, not an exception.              *)
(***************************************************************************)
np_ceil_div(n, d) ==
    IF d = 0
    THEN astype_int_nonfinite(IF n = 0 THEN "nan" ELSE "inf")
    ELSE ceil_div(n, d)

(***************************************************************************)
(* np.ceil(np.sqrt(n)).astype(int) for n >= 0: the float square root is    *)
(* exact on perfect squares and otherwise not an integer, so the result is *)
(* the integer part of the root, plus one unless n is a perfect square.    *)
(***************************************************************************)
RECURSIVE isqrt_from(_, _)
isqrt_from(n, r) == IF (r + 1) * (r + 1) > n THEN r ELSE isqrt_from(n, r + 1)

isqrt(n) == isqrt_from(n, 0)

ceil_sqrt_floor(n) == isqrt(n)

ceil_sqrt(n) == IF isqrt(n) * isqrt(n) = n THEN isqrt(n) ELSE isqrt(n) + 1

(***************************************************************************)
(* GridCanvas.actual_size(nlayers).                                        *)
(***************************************************************************)
n_grid_squares_of(self, nlayers) == ceil_div(nlayers, abs(self.stride))

grid_shape_swapped(self, n_grid_squares) ==
    LET n_row == self.size[1]
        n_column == self.size[2]
    IN  IF n_row = AUTO /\ n_column = AUTO
        THEN LET r == ceil_sqrt(n_grid_squares)
             IN  <<r, np_ceil_div(n_grid_squares, r)>>
        ELSE IF n_row = AUTO
        THEN <<np_ceil_div(n_grid_squares, n_column), n_column>>
        ELSE IF n_column = AUTO
        THEN <<n_row, np_ceil_div(n_grid_squares, n_row)>>
        ELSE <<n_row, n_column>>

grid_shape(self, n_grid_squares) ==
    LET n_row == self.size[1]
        n_column == self.size[2]
    IN  IF n_row = AUTO /\ n_column = AUTO
        THEN LET c == ceil_sqrt(n_grid_squares)
             IN  <<np_ceil_div(n_grid_squares, c), c>>
        ELSE IF n_row = AUTO
        THEN <<np_ceil_div(n_grid_squares, n_column), n_column>>
        ELSE IF n_column = AUTO
        THEN <<n_row, np_ceil_div(n_grid_squares, n_row)>>
        ELSE <<n_row, n_column>>

actual_size_eager(self, nlayers) ==
    IF self.stride = 0
    THEN Raise("ZeroDivisionError")
    ELSE IF self.enabled
    THEN LET shape == grid_shape(self, n_grid_squares_of(self, nlayers))
         IN  Return(<<max(1, shape[1]), max(1, shape[2])>>)
    ELSE Return(<<1, 1>>)

actual_size(self, nlayers) ==
    IF self.enabled
    THEN IF self.stride = 0
         THEN Raise("ZeroDivisionError")
         ELSE LET shape == grid_shape(self, n_grid_squares_of(self, nlayers))
              IN  Return(<<max(1, shape[1]), max(1, shape[2])>>)
    ELSE Return(<<1, 1>>)

(***************************************************************************)
(* GridCanvas.position(index, nlayers).                                    *)
(***************************************************************************)
adjust_order(self, index, nlayers) ==
    IF self.stride < 0 THEN nlayers - index - 1 ELSE index

cell_slot_divide_first(self, index, nlayers) ==
    IF self.stride < 0
    THEN ((nlayers - 1) \div abs(self.stride)) - (index \div abs(self.stride))
    ELSE index \div abs(self.stride)

cell_slot(self, index, nlayers) ==
    adjust_order(self, index, nlayers) \div abs(self.stride)

wrap_slot_unwrapped(adj_i, n_row, n_column) == adj_i

wrap_slot(adj_i, n_row, n_column) == adj_i % (n_row * n_column)

position_divides_by_rows(self, index, nlayers) ==
    IF self.enabled
    THEN LET sz == actual_size(self, nlayers)
         IN  IF sz.raised # "none"
             THEN sz
             ELSE LET n_row == sz.value[1]
                      n_column == sz.value[2]
                      adj_i == wrap_slot(cell_slot(self, index, nlayers),
                                         n_row, n_column)
                  IN  Return(<<adj_i \div n_row, adj_i % n_row>>)
    ELSE Return(<<0, 0>>)

position(self, index, nlayers) ==
    IF self.enabled
    THEN LET sz == actual_size(self, nlayers)
         IN  IF sz.raised # "none"
             THEN sz
             ELSE LET n_row == sz.value[1]
                      n_column == sz.value[2]
                      adj_i == wrap_slot(cell_slot(self, index, nlayers),
                                         n_row, n_column)
                  IN  Return(<<adj_i \div n_column, adj_i % n_column>>)
    ELSE Return(<<0, 0>>)

(***************************************************************************)
(* The object and its event.  events.update() calls every connected        *)
(* listener once, synchronously; the listener reads the configuration.     *)
(***************************************************************************)
Config(e, sz, st) == [enabled |-> e, size |-> sz, stride |-> st]

this == Config(enabled, size, stride)

events_update(self) == <<self>>

Call(op, args, res) ==
    [op |-> op, args |-> args, raised |-> res.raised, value |-> res.value]

(***************************************************************************)
(* GridCanvas(size=..., stride=..., enabled=...): no event is emitted.     *)
(* The constructor is called with a nonzero stride.                        *)
(***************************************************************************)
Init ==
    /\ enabled \in BOOLEAN
    /\ size \in Sizes
    /\ stride \in Strides \ {0}
    /\ build \in Builds
    /\ emitted = <<>>
    /\ ret = Call("__init__", <<>>, Return(<<>>))

set_enabled(v) ==
    /\ enabled' = v
    /\ UNCHANGED <<size, stride, build>>
    /\ emitted' = events_update(Config(enabled', size', stride'))
    /\ ret' = Call("enabled.setter", <<v>>, Return(<<>>))

set_size(v) ==
    /\ size' = v
    /\ UNCHANGED <<enabled, stride, build>>
    /\ emitted' = events_update(Config(enabled', size', stride'))
    /\ ret' = Call("size.setter", <<v>>, Return(<<>>))

set_stride_emit_first(v) ==
    /\ emitted' = events_update(this)
    /\ stride' = v
    /\ UNCHANGED <<enabled, size, build>>
    /\ ret' = Call("stride.setter", <<v>>, Return(<<>>))

set_stride(v) ==
    /\ stride' = v
    /\ UNCHANGED <<enabled, size, build>>
    /\ emitted' = events_update(Config(enabled', size', stride'))
    /\ ret' = Call("stride.setter", <<v>>, Return(<<>>))

call_actual_size(nlayers) ==
    /\ ret' = Call("actual_size", <<nlayers>>, actual_size(this, nlayers))
    /\ emitted' = <<>>
    /\ UNCHANGED <<enabled, size, stride, build>>

call_position(index, nlayers) ==
    /\ ret' = Call("position", <<index, nlayers>>,
                   position(this, index, nlayers))
    /\ emitted' = <<>>
    /\ UNCHANGED <<enabled, size, stride, build>>

Next ==
    \/ \E v \in BOOLEAN : set_enabled(v)
    \/ \E v \in Sizes : set_size(v)
    \/ \E v \in Strides : set_stride(v)
    \/ \E n \in LayerCounts : call_actual_size(n)
    \/ \E n \in LayerCounts : \E i \in 0 .. n : call_position(i, n)

Spec == Init /\ [][Next]_vars

TypeOK ==
    /\ enabled \in BOOLEAN
    /\ size \in Sizes
    /\ stride \in Strides
    /\ build \in Builds
    /\ Len(emitted) <= 1
    /\ ret.raised \in {"none", "ZeroDivisionError"}

(***************************************************************************)
(* Vocabulary of the properties: the call ret records and its arguments.   *)
(***************************************************************************)
Setters == {"enabled.setter", "size.setter", "stride.setter"}
Queries == {"actual_size", "position"}

IsFixedOrAuto(d) == d = AUTO \/ d >= 1
ValidSize == IsFixedOrAuto(size[1]) /\ IsFixedOrAuto(size[2])

\* q is the ceiling of a / b, for a >= 0 and b >= 1.
IsCeilDiv(q, a, b) == (q - 1) * b < a /\ a <= q * b
\* c is the ceiling of the square root of a, for a >= 1.
IsCeilSqrt(c, a) == c >= 1 /\ (c - 1) * (c - 1) < a /\ a <= c * c

\* A position(index, nlayers) call with 0 <= index < nlayers has returned.
ValidPositionCall ==
    /\ ret.op = "position"
    /\ ret.args[2] >= 1
    /\ ret.args[1] < ret.args[2]

\* The layer rank after the reversal a negative stride asks for.
Ordered(j, n) == IF stride < 0 THEN n - 1 - j ELSE j

(***************************************************************************)
(* C1: in an enabled configuration whose size components are -1 or >= 1    *)
(* and whose stride is nonzero, position(index, nlayers) with              *)
(* 0 <= index < nlayers returns (row, col) with 0 <= row < rows and        *)
(* 0 <= col < cols, where (rows, cols) = actual_size(nlayers).             *)
(***************************************************************************)
C1_PositionInBounds ==
    (enabled /\ ValidSize /\ stride # 0 /\ ValidPositionCall) =>
        LET sz == actual_size(this, ret.args[2])
        IN  /\ ret.raised = "none"
            /\ sz.raised = "none"
            /\ 0 <= ret.value[1] /\ ret.value[1] < sz.value[1]
            /\ 0 <= ret.value[2] /\ ret.value[2] < sz.value[2]

C1_Witness ==
    /\ enabled /\ size = <<2, 2>> /\ stride = -1
    /\ ret.op = "position" /\ ret.args = <<0, 7>>
    /\ ret.value = <<1, 0>>

(***************************************************************************)
(* C2: the stride setter rejects 0 with a ConfigurationError, so the       *)
(* stride is nonzero in every state reached from a nonzero initial stride. *)
(***************************************************************************)
C2_StrideZeroRejected ==
    /\ (ret.op = "stride.setter" /\ ret.args = <<0>>) =>
           ret.raised = "ConfigurationError"
    /\ stride # 0

(***************************************************************************)
(* C3: while the grid is disabled, actual_size returns (1, 1) and position *)
(* returns (0, 0) for every argument, whatever size and stride hold (a     *)
(* zero stride and a zero dimension included).                             *)
(***************************************************************************)
C3_DisabledBypass ==
    ~enabled =>
        /\ ret.op = "actual_size" =>
               (ret.raised = "none" /\ ret.value = <<1, 1>>)
        /\ ret.op = "position" =>
               (ret.raised = "none" /\ ret.value = <<0, 0>>)

C3_Witness ==
    /\ ~enabled /\ stride = 0 /\ size = <<0, AUTO>>
    /\ ret.op = "position" /\ ret.args = <<2, 3>>
    /\ ret.value = <<0, 0>>

(***************************************************************************)
(* C4: when enabled, with n_cells the ceiling of nlayers / |stride|,       *)
(* actual_size(nlayers) for nlayers >= 1 is: both auto, cols the ceiling   *)
(* of sqrt(n_cells) and rows the ceiling of n_cells / cols; rows auto,     *)
(* rows the ceiling of n_cells / cols with cols as requested; cols auto,   *)
(* cols the ceiling of n_cells / rows with rows as requested; none auto,   *)
(* the requested pair; and both dimensions are at least 1.                 *)
(***************************************************************************)
C4_ActualSizeReference ==
    (enabled /\ ValidSize /\ stride # 0
        /\ ret.op = "actual_size" /\ ret.args[1] >= 1) =>
        /\ ret.raised = "none"
        /\ LET rows == ret.value[1]
               cols == ret.value[2]
           IN  /\ rows >= 1 /\ cols >= 1
               /\ \E n_cells \in 1 .. ret.args[1] :
                    /\ IsCeilDiv(n_cells, ret.args[1], abs(stride))
                    /\ IF size[1] = AUTO /\ size[2] = AUTO
                       THEN IsCeilSqrt(cols, n_cells)
                            /\ IsCeilDiv(rows, n_cells, cols)
                       ELSE IF size[1] = AUTO
                       THEN cols = size[2] /\ IsCeilDiv(rows, n_cells, cols)
                       ELSE IF size[2] = AUTO
                       THEN rows = size[1] /\ IsCeilDiv(cols, n_cells, rows)
                       ELSE rows = size[1] /\ cols = size[2]

C4_Witness ==
    /\ enabled /\ size = <<AUTO, 2>> /\ stride = -2
    /\ ret.op = "actual_size" /\ ret.args = <<9>>
    /\ ret.value = <<3, 2>>

(***************************************************************************)
(* C5: in every enabled configuration and for every nlayers >= 0,          *)
(* actual_size(nlayers) raises no error and returns two integers >= 1.     *)
(***************************************************************************)
C5_ActualSizeTotal ==
    (enabled /\ ret.op = "actual_size") =>
        /\ ret.raised = "none"
        /\ ret.value[1] >= 1
        /\ ret.value[2] >= 1

\* What does hold of the code: the same with the stride nonzero, on either
\* build, zero layers and zero dimensions included.
ActualSizePositiveForNonzeroStride ==
    (enabled /\ stride # 0 /\ ret.op = "actual_size") =>
        /\ ret.raised = "none"
        /\ ret.value[1] >= 1
        /\ ret.value[2] >= 1

(***************************************************************************)
(* C6: for s > 0, position(i, nlayers) under stride -s equals              *)
(* position(nlayers - 1 - i, nlayers) under stride s with the same enabled *)
(* flag and size, for 0 <= i < nlayers.  The index is reversed before it   *)
(* is divided by s, so under stride -s the group of index 0 is the short   *)
(* one: it holds nlayers mod s layers when s does not divide nlayers.      *)
(***************************************************************************)
C6_Reversal ==
    (stride < 0 /\ ValidPositionCall) =>
        LET i == ret.args[1]
            n == ret.args[2]
            s == -stride
            forward == position(Config(enabled, size, s), n - 1 - i, n)
            group0 == {j \in 0 .. n - 1 :
                         cell_slot(this, j, n) = cell_slot(this, 0, n)}
        IN  /\ ret.raised = forward.raised
            /\ ret.value = forward.value
            /\ Cardinality(group0) = (IF n % s = 0 THEN s ELSE n % s)

C6_Witness ==
    /\ enabled /\ size = <<AUTO, AUTO>> /\ stride = -2
    /\ ret.op = "position" /\ ret.args = <<1, 5>>
    /\ ret.value = <<0, 1>>

(***************************************************************************)
(* C7: every setter call writes its field and then delivers the update     *)
(* notification exactly once, so the listener reads the configuration that *)
(* holds when the setter returns; actual_size and position deliver no      *)
(* notification and change no field.                                       *)
(***************************************************************************)
C7_SetterStep ==
    /\ ret'.op \in Setters =>
           /\ emitted' = <<Config(enabled', size', stride')>>
           /\ ret'.op = "enabled.setter" => enabled' = ret'.args[1]
           /\ ret'.op = "size.setter" => size' = ret'.args[1]
           /\ ret'.op = "stride.setter" => stride' = ret'.args[1]
    /\ ret'.op \in Queries =>
           /\ emitted' = <<>>
           /\ UNCHANGED <<enabled, size, stride>>

C7_NotifyAfterWrite == [][C7_SetterStep]_vars

C7_Witness ==
    /\ ret.op = "stride.setter" /\ ret.args = <<-2>>
    /\ stride = -2
    /\ emitted = <<this>>

(***************************************************************************)
(* C8 as stated: with enabled, size (-1, -1), stride 1 and 5 layers,       *)
(* actual_size is (3, 2) and positions 0, 2, 4 are (0,0), (0,2), (1,1).    *)
(***************************************************************************)
C8_Scenario ==
    (enabled /\ size = <<AUTO, AUTO>> /\ stride = 1) =>
        /\ (ret.op = "actual_size" /\ ret.args = <<5>>) => ret.value = <<3, 2>>
        /\ (ret.op = "position" /\ ret.args = <<0, 5>>) => ret.value = <<0, 0>>
        /\ (ret.op = "position" /\ ret.args = <<2, 5>>) => ret.value = <<0, 2>>
        /\ (ret.op = "position" /\ ret.args = <<4, 5>>) => ret.value = <<1, 1>>

(***************************************************************************)
(* C8 amended: in that configuration actual_size(5), a (rows, cols) pair,  *)
(* is (2, 3): 3 columns and 2 rows; the three positions are as stated.     *)
(***************************************************************************)
C8_ScenarioAmended ==
    (enabled /\ size = <<AUTO, AUTO>> /\ stride = 1) =>
        /\ (ret.op = "actual_size" /\ ret.args = <<5>>) =>
               (ret.raised = "none" /\ ret.value = <<2, 3>>)
        /\ (ret.op = "position" /\ ret.args = <<0, 5>>) => ret.value = <<0, 0>>
        /\ (ret.op = "position" /\ ret.args = <<2, 5>>) => ret.value = <<0, 2>>
        /\ (ret.op = "position" /\ ret.args = <<4, 5>>) => ret.value = <<1, 1>>

C8_Witness ==
    /\ enabled /\ size = <<AUTO, AUTO>> /\ stride = 1
    /\ ret.op = "actual_size" /\ ret.args = <<5>>
    /\ ret.value = <<2, 3>>

(***************************************************************************)
(* C9: when enabled with both dimensions fixed and rows * cols smaller     *)
(* than the ceiling of nlayers / |stride|, two distinct indices share a    *)
(* cell, indices whose slots differ by a multiple of rows * cols get the   *)
(* same cell, and every cell is inside the grid; with size (2, 2),         *)
(* stride 2 and 10 layers, indices 8, 9, 0 and 1 share one cell.           *)
(***************************************************************************)
C9_Wraparound ==
    (enabled /\ size[1] # AUTO /\ size[2] # AUTO /\ stride # 0
        /\ ret.op \in Queries) =>
        LET n == IF ret.op = "position" THEN ret.args[2] ELSE ret.args[1]
            s == abs(stride)
            sz == actual_size(this, n)
            cells == sz.value[1] * sz.value[2]
        IN  (n >= 1 /\ cells * s < n) =>
            /\ ret.op = "actual_size" =>
                   \E i, j \in 0 .. n - 1 :
                       i # j /\ position(this, i, n) = position(this, j, n)
            /\ ValidPositionCall =>
                   /\ ret.raised = "none"
                   /\ ret.value[1] < sz.value[1] /\ ret.value[2] < sz.value[2]
                   /\ \A j \in 0 .. n - 1 :
                        ((Ordered(j, n) \div s) % cells
                            = (Ordered(ret.args[1], n) \div s) % cells)
                        => position(this, j, n).value = ret.value
            /\ (size = <<2, 2>> /\ stride = 2 /\ ret.op = "position"
                   /\ ret.args \in {<<8, 10>>, <<9, 10>>, <<1, 10>>}) =>
                   ret.value = position(this, 0, 10).value

C9_Witness ==
    /\ enabled /\ size = <<2, 2>> /\ stride = 2
    /\ ret.op = "position" /\ ret.args = <<8, 10>>
    /\ ret.value = <<0, 0>>

(***************************************************************************)
(* C10: when enabled with at least one dimension auto and the other auto   *)
(* or >= 1, rows * cols is at least the ceiling of nlayers / |stride|, two *)
(* indices get the same cell exactly when their (reversed, for a negative  *)
(* stride) ranks have the same quotient by |stride|, and a cell holds at   *)
(* most |stride| layers.                                                   *)
(***************************************************************************)
C10_NoCollisionAuto ==
    (enabled /\ ValidSize /\ (size[1] = AUTO \/ size[2] = AUTO)
        /\ stride # 0 /\ ValidPositionCall) =>
        LET i == ret.args[1]
            n == ret.args[2]
            s == abs(stride)
            sz == actual_size(this, n)
            same == {j \in 0 .. n - 1 : position(this, j, n).value = ret.value}
        IN  /\ ret.raised = "none"
            /\ sz.value[1] * sz.value[2] * s >= n
            /\ \A j \in 0 .. n - 1 :
                 (j \in same) <=> (Ordered(j, n) \div s = Ordered(i, n) \div s)
            /\ Cardinality(same) <= s

C10_Witness ==
    /\ enabled /\ size = <<2, AUTO>> /\ stride = -2
    /\ ret.op = "position" /\ ret.args = <<6, 7>>
    /\ ret.value = <<0, 0>>
=============================================================================
